---- MODULE Spec2Model ----
(***************************************************************************)
(* Model of src/src/App.tsx: the phase sequencer, the starfield renderer,  *)
(* the input-to-speed coupling and the simulated action trigger.           *)
(*                                                                         *)
(* Numbers.  JavaScript numbers are modelled in fixed point:               *)
(*   - speeds and depths (z) in millionths: 0.001 is 1000, 2.5 is 2500000; *)
(*   - lateral offsets (x, y) in thousandths: 0.5 is 500;                  *)
(*   - opacities in hundredths: 0.3 is 30;                                 *)
(*   - times in milliseconds; screen coordinates in whole pixels.          *)
(* An arithmetic result is rounded to the nearest unit, as IEEE rounds to  *)
(* the nearest double.                                                     *)
(***************************************************************************)
EXTENDS Integers, Sequences, FiniteSets, TLC

(* ------------------------------ bounds -------------------------------- *)

\* Frame callbacks the browser runs in one behaviour.
MaxFrames == 1

\* Burst-decay timers pending at once (one per press of the trigger).
MaxPending == 2

\* Longest time the clock advances in one step, in ms; a step never passes a
\* timer's deadline, so user events fall on deadlines and in between them.
TimeStep == 2000

(* ------------------------- program constants -------------------------- *)

INITIAL_SPEED == 1000
AMBIENT_SPEED == 2000
THINKING_SPEED == 3000
IDLE_SPEED == 2000
\* Mutant of BURST_SPEED: the burst target lies above the stated set.
BURST_SPEED_high == 18000 + 1000

BURST_SPEED == 18000
SUSTAINED_SPEED == 6000

SILENCE_MS == 2500
\* Mutant of AWAKENING_MS: 'awakening' is armed 500ms late.
AWAKENING_MS_late == 3500 + 500

AWAKENING_MS == 3500
\* Mutant of READY_MS: 'ready' is armed before 'awakening'.
READY_MS_early == AWAKENING_MS - 1500

READY_MS == 6500
VISIBLE_MS == 9000
BURST_MS == 3500

MAX_Z == 2500000
MIN_Z == 1000
TRAIL_Z == 500000
OFFSCREEN_MARGIN == 50

\* speedRef.current += (target - speed) * 0.05: the factor, in hundredths.
EASE_PERCENT == 5

\* Mutant of breathSequence: the second and third opacities are exchanged.
breathSequence_swapped ==
    << [time |-> 0,    opacity |-> 0],
       [time |-> 800,  opacity |-> 10],
       [time |-> 1600, opacity |-> 30],
       [time |-> 2400, opacity |-> 25],
       [time |-> 3200, opacity |-> 0] >>

breathSequence ==
    << [time |-> 0,    opacity |-> 0],
       [time |-> 800,  opacity |-> 30],
       [time |-> 1600, opacity |-> 10],
       [time |-> 2400, opacity |-> 25],
       [time |-> 3200, opacity |-> 0] >>

\* type AppPhase, in its order of appearance.
AppPhase == << "silence", "breath", "awakening", "ready" >>

PhaseIndex(p) == CHOOSE i \in 1..Len(AppPhase) : AppPhase[i] = p

(* ------------------------------ helpers ------------------------------- *)

\* The particles the model follows, of the NUM_STARS = 100 of the program: the
\* body of starsRef.current.forEach reads and writes its own particle only, so
\* what holds of one particle holds of each.
Particles == {1}

Abs(n) == IF n < 0 THEN -n ELSE n

Min(a, b) == IF a < b THEN a ELSE b

\* n / d rounded to the nearest integer, halves away from zero (d > 0).
RoundDiv(n, d) ==
    IF n >= 0 THEN (2 * n + d) \div (2 * d) ELSE -((2 * (-n) + d) \div (2 * d))

\* An optional number (star.prevX?, star.prevY?): undefined, or the number v.
Undefined == << >>

Defined(v) == << v >>

\* The texts the user types: the empty one, a whitespace-only one and one with
\* a letter.
Texts == { << >>, << " " >>, << "a" >> }

\* String.prototype.trim: leading and trailing whitespace removed.
RECURSIVE TrimLeft(_)
TrimLeft(s) ==
    IF s # << >> /\ Head(s) = " " THEN TrimLeft(Tail(s)) ELSE s

RECURSIVE TrimRight(_)
TrimRight(s) ==
    IF s # << >> /\ s[Len(s)] = " "
    THEN TrimRight(SubSeq(s, 1, Len(s) - 1))
    ELSE s

trim(s) == TrimRight(TrimLeft(s))

\* Viewport sizes (window.innerWidth, window.innerHeight), in pixels.
Viewports == { <<200, 100>>, <<400, 100>> }

\* Values Math.random() gives the lateral offsets (Math.random() - 0.5) * 2,
\* which lie in [-1, 1): the centre, and a position that near the viewer
\* (z about 0.5) projects onto the narrow viewport and off the wide one.
RandomXY == { <<0, 0>>, <<700, -500>> }

\* Values Math.random() * (MAX_Z - MIN_Z) + MIN_Z gives a new particle's depth,
\* which lie in [MIN_Z, MAX_Z): the lowest, one the second frame brings to MIN_Z
\* exactly (the first two frames advance by 0.00105 and 0.001098), and one near
\* the viewer.
RandomZ == { MIN_Z, MIN_Z + 1050 + 1098, TRAIL_Z }

(* ------------------------------- state -------------------------------- *)

VARIABLES
    lifecycle,        \* "rendered" (before effects), "mounted", "unmounted"
    elapsed,          \* ms since mount, counted up to the sequencer's last deadline
    phase,            \* useState<AppPhase>
    breathOpacity,    \* useState(0)
    isVisible,        \* useState(false)
    inputValue,       \* useState('')
    isSimulating,     \* useState(false)
    speed,            \* speedRef.current
    targetSpeed,      \* targetSpeedRef.current
    stars,            \* starsRef.current
    timers,           \* pending setTimeout callbacks, in order of registration
    rafPending,       \* pending requestAnimationFrame callbacks
    resizeListeners,  \* registered 'resize' listeners
    viewport,         \* <<window.innerWidth, window.innerHeight>>
    canvas,           \* <<canvas.width, canvas.height>>
    drawn,            \* what the last frame did for each particle: respawn, circle, trail
    audioRunning,     \* the oscillator is started and not stopped
    frameCount        \* frame callbacks run so far

vars ==
    << lifecycle, elapsed, phase, breathOpacity, isVisible, inputValue,
       isSimulating, speed, targetSpeed, stars, timers, rafPending,
       resizeListeners, viewport, canvas, drawn, audioRunning, frameCount >>

(* ------------------------ starfield renderer -------------------------- *)

\* Mutant of Ease: the factor is 1.05.
Ease_overshoot(s, t) == s + RoundDiv((t - s) * (100 + EASE_PERCENT), 100)

\* speedRef.current += (targetSpeedRef.current - speedRef.current) * 0.05
Ease(s, t) == s + RoundDiv((t - s) * EASE_PERCENT, 100)

\* initStars: the particles, with random x, y, z and no previous projection;
\* xy and z are the values Math.random() gave, one per particle.
initStars(xy, z) ==
    [i \in Particles |->
        [x |-> xy[i][1], y |-> xy[i][2], z |-> z[i],
         prevX |-> Undefined, prevY |-> Undefined]]

\* Mutant of Respawns: the comparison is strict.
Respawns_strict(z) == z < MIN_Z

\* The particle is respawned when its depth is at or below MIN_Z.
Respawns(z) == z <= MIN_Z

\* star.z -= speed, then the respawn at MAX_Z with a fresh random position.
Advance(star, spd, xy) ==
    LET z1 == star.z - spd
    IN  IF Respawns(z1)
        THEN [x |-> xy[1], y |-> xy[2], z |-> MAX_Z,
              prevX |-> Undefined, prevY |-> Undefined]
        ELSE [star EXCEPT !.z = z1]

\* offset * (1 / z) * center + center, in whole pixels (size is the canvas
\* width or height, center its half).
Project(offset, z, size) == ((offset * 1000 * size) \div (2 * z)) + (size \div 2)

\* x < -50 || x > size + 50, decided on the exact quotient.
OffSurface(offset, z, size) ==
    \/ offset * 1000 * size < -((size + 2 * OFFSCREEN_MARGIN) * z)
    \/ offset * 1000 * size > (size + 2 * OFFSCREEN_MARGIN) * z

\* The body of starsRef.current.forEach: the particle after the frame, and
\* what the frame drew for it.
StepStar(star, spd, cv, xy) ==
    LET s1 == Advance(star, spd, xy)
        px == Project(s1.x, s1.z, cv[1])
        py == Project(s1.y, s1.z, cv[2])
        re == Respawns(star.z - spd)
    IN  IF OffSurface(s1.x, s1.z, cv[1]) \/ OffSurface(s1.y, s1.z, cv[2])
        THEN [star |-> s1, respawned |-> re, circle |-> FALSE, trail |-> FALSE]
        ELSE [star   |-> [s1 EXCEPT !.prevX = Defined(px), !.prevY = Defined(py)],
              respawned |-> re,
              circle |-> TRUE,
              trail  |-> /\ s1.prevX # Undefined
                         /\ s1.prevY # Undefined
                         /\ s1.z < TRAIL_Z]

\* animate: one frame on the particles ps and the canvas cv, with the target
\* speed tgt; xy are the positions Math.random() gives the particles respawned
\* in this frame.
animate(ps, cv, xy, tgt) ==
    LET spd == Ease(speed, tgt)
        res == [i \in 1..Len(ps) |-> StepStar(ps[i], spd, cv, xy[i])]
    IN  /\ speed' = spd
        /\ stars' = [i \in 1..Len(ps) |-> res[i].star]
        /\ drawn' = [i \in 1..Len(ps) |-> [respawned |-> res[i].respawned,
                                           circle    |-> res[i].circle,
                                           trail     |-> res[i].trail]]

\* Mutant of RendererActive: the guard on 'silence' and 'breath' is missing.
RendererActive_unguarded(l, p) == l = "mounted" /\ p # "silence"

\* The renderer effect is active: it ran for this phase and was not cleaned up.
RendererActive(l, p) == l = "mounted" /\ p \in {"awakening", "ready"}

\* Mutant of NeedsInit: the particles are generated at every activation.
NeedsInit_always(ps) == Len(ps) >= 0

\* if (starsRef.current.length === 0) initStars()
NeedsInit(ps) == Len(ps) = 0

\* Mutant of CancelFrame: the cleanup does not cancel the pending frame.
CancelFrame_missing(n) == n

\* The renderer cleanup's cancelAnimationFrame(animationFrameRef.current), on n
\* pending frame callbacks: the last one requested is cancelled.
CancelFrame(n) == IF n > 0 THEN n - 1 ELSE n

\* The renderer effect of useEffect(..., [phase]) for the new phase p, the
\* target speed being tgt: the cleanup of the previous run, then setCanvasSize,
\* the resize listener, initStars when there are no particles, and the first
\* animate().
RendererEffect(p, tgt) ==
    LET cleaned == RendererActive(lifecycle, phase)
        lis == IF cleaned THEN resizeListeners - 1 ELSE resizeListeners
        raf == IF cleaned THEN CancelFrame(rafPending) ELSE rafPending
    IN  IF RendererActive(lifecycle, p)
        THEN /\ canvas' = viewport
             /\ resizeListeners' = lis + 1
             /\ rafPending' = raf + 1
             /\ \E xy \in [Particles -> RandomXY], z \in [Particles -> RandomZ],
                   rxy \in [Particles -> RandomXY] :
                   animate(IF NeedsInit(stars) THEN initStars(xy, z) ELSE stars,
                           viewport, rxy, tgt)
        ELSE /\ resizeListeners' = lis
             /\ rafPending' = raf
             /\ UNCHANGED << canvas, speed, stars, drawn >>

\* The audio effect of useEffect(..., [phase]): the drone starts in 'ready'.
AudioEffect(p) ==
    audioRunning' = (lifecycle = "mounted" /\ p = "ready")

\* A frame callback of requestAnimationFrame: animate, which requests the next.
Frame ==
    /\ rafPending > 0
    /\ frameCount < MaxFrames
    /\ \E rxy \in [Particles -> RandomXY] : animate(stars, canvas, rxy, targetSpeed)
    /\ frameCount' = frameCount + 1
    /\ UNCHANGED << lifecycle, elapsed, phase, breathOpacity, isVisible, inputValue,
                    isSimulating, targetSpeed, timers, rafPending, resizeListeners,
                    viewport, canvas, audioRunning >>

\* A 'resize' event of the window: every registered listener runs setCanvasSize.
\* (Nothing reads the viewport after the unmount.)
Resize ==
    /\ lifecycle # "unmounted"
    /\ \E v \in Viewports \ {viewport} :
          /\ viewport' = v
          /\ canvas' = IF resizeListeners > 0 THEN v ELSE canvas
    /\ UNCHANGED << lifecycle, elapsed, phase, breathOpacity, isVisible, inputValue,
                    isSimulating, speed, targetSpeed, stars, timers, rafPending,
                    resizeListeners, drawn, audioRunning, frameCount >>

(* --------------------- timers and the sequencer ----------------------- *)

\* setTimeout(callback, delay): the callback is named by its kind.
Timer(kind, delay, opacity) ==
    [kind |-> kind, remaining |-> delay, opacity |-> opacity]

SequencerKinds == {"silence", "breath", "awakening", "ready", "visible"}

\* The timers the silenceTimer callback arms, in the order it arms them.
NestedTimers ==
    [i \in 1..Len(breathSequence) |->
        Timer("breath", breathSequence[i].time, breathSequence[i].opacity)]
    \o << Timer("awakening", AWAKENING_MS, 0),
          Timer("ready", READY_MS, 0),
          Timer("visible", VISIBLE_MS, 0) >>

\* The last deadline of the sequencer, from mount.
SequenceEnd == SILENCE_MS + VISIBLE_MS

\* The index of the timer the event loop runs next: the first registered of
\* those that are due; 0 when none is due.
DueTimer ==
    IF \E i \in 1..Len(timers) : timers[i].remaining = 0
    THEN CHOOSE i \in 1..Len(timers) :
            /\ timers[i].remaining = 0
            /\ \A j \in 1..(i - 1) : timers[j].remaining # 0
    ELSE 0

Remove(seq, i) == SubSeq(seq, 1, i - 1) \o SubSeq(seq, i + 1, Len(seq))

\* The time to the next deadline, at most TimeStep.
NextStep ==
    LET S == {timers[i].remaining : i \in 1..Len(timers)}
        m == IF S = {} THEN TimeStep ELSE CHOOSE r \in S : \A q \in S : r <= q
    IN  Min(TimeStep, m)

\* Time passes up to the next deadline; a due timer runs before time goes on.
Tick ==
    /\ lifecycle # "rendered"
    /\ DueTimer = 0
    /\ timers' = [i \in 1..Len(timers) |->
                    [timers[i] EXCEPT !.remaining = @ - NextStep]]
    /\ elapsed' = Min(elapsed + NextStep, SequenceEnd)
    /\ UNCHANGED << lifecycle, phase, breathOpacity, isVisible, inputValue,
                    isSimulating, speed, targetSpeed, stars, rafPending,
                    resizeListeners, viewport, canvas, drawn, audioRunning,
                    frameCount >>

\* A state setter of useState: React drops the update of an unmounted component.
SetState(old, new) == IF lifecycle = "mounted" THEN new ELSE old

\* Mutant of CouplingSpeed: the else branch is missing.
CouplingSpeed_sticky(text) == IF Len(text) > 0 THEN THINKING_SPEED ELSE targetSpeed

\* inputValue.length > 0 ? 0.003 : 0.002 (the inputValue effect).
CouplingSpeed(text) == IF Len(text) > 0 THEN THINKING_SPEED ELSE IDLE_SPEED

\* The first render's effects, in order: the sequencer arms silenceTimer, the
\* renderer and audio effects return at once (phase is 'silence'), the
\* inputValue effect writes the target speed.
Mount ==
    /\ lifecycle = "rendered"
    /\ lifecycle' = "mounted"
    /\ timers' = Append(timers, Timer("silence", SILENCE_MS, 0))
    /\ targetSpeed' = CouplingSpeed(inputValue)
    /\ UNCHANGED << elapsed, phase, breathOpacity, isVisible, inputValue,
                    isSimulating, speed, stars, rafPending, resizeListeners,
                    viewport, canvas, drawn, audioRunning, frameCount >>

\* silenceTimer's callback: 'breath', and the nested timers are armed; then
\* the effects of the new phase, which return at once in 'breath'.
SilenceTimer ==
    /\ DueTimer # 0 /\ timers[DueTimer].kind = "silence"
    /\ phase' = SetState(phase, "breath")
    /\ timers' = Remove(timers, DueTimer) \o NestedTimers
    /\ RendererEffect(phase', targetSpeed)
    /\ AudioEffect(phase')
    /\ UNCHANGED << lifecycle, elapsed, breathOpacity, isVisible, inputValue,
                    isSimulating, targetSpeed, viewport, frameCount >>

\* () => setBreathOpacity(opacity)
BreathTimer ==
    /\ DueTimer # 0 /\ timers[DueTimer].kind = "breath"
    /\ breathOpacity' = SetState(breathOpacity, timers[DueTimer].opacity)
    /\ timers' = Remove(timers, DueTimer)
    /\ UNCHANGED << lifecycle, elapsed, phase, isVisible, inputValue, isSimulating,
                    speed, targetSpeed, stars, rafPending, resizeListeners,
                    viewport, canvas, drawn, audioRunning, frameCount >>

\* setPhase('awakening'); targetSpeedRef.current = 0.002; then the effects of
\* the new phase: the renderer is activated.
AwakeningTimer ==
    /\ DueTimer # 0 /\ timers[DueTimer].kind = "awakening"
    /\ phase' = SetState(phase, "awakening")
    /\ targetSpeed' = AMBIENT_SPEED
    /\ timers' = Remove(timers, DueTimer)
    /\ RendererEffect(phase', AMBIENT_SPEED)
    /\ AudioEffect(phase')
    /\ UNCHANGED << lifecycle, elapsed, breathOpacity, isVisible, inputValue,
                    isSimulating, viewport, frameCount >>

\* setPhase('ready'); then the effects of the new phase: the renderer is
\* cleaned up and activated again, the drone starts.
ReadyTimer ==
    /\ DueTimer # 0 /\ timers[DueTimer].kind = "ready"
    /\ phase' = SetState(phase, "ready")
    /\ timers' = Remove(timers, DueTimer)
    /\ RendererEffect(phase', targetSpeed)
    /\ AudioEffect(phase')
    /\ UNCHANGED << lifecycle, elapsed, breathOpacity, isVisible, inputValue,
                    isSimulating, targetSpeed, viewport, frameCount >>

\* () => setIsVisible(true)
VisibleTimer ==
    /\ DueTimer # 0 /\ timers[DueTimer].kind = "visible"
    /\ isVisible' = SetState(isVisible, TRUE)
    /\ timers' = Remove(timers, DueTimer)
    /\ UNCHANGED << lifecycle, elapsed, phase, breathOpacity, inputValue,
                    isSimulating, speed, targetSpeed, stars, rafPending,
                    resizeListeners, viewport, canvas, drawn, audioRunning,
                    frameCount >>

(* ------------------- input coupling and the trigger ------------------- *)

\* The textarea's onChange, setInputValue(e.target.value), and the inputValue
\* effect the re-render runs.  The textarea exists in phase 'ready' only.
TextChange ==
    /\ lifecycle = "mounted" /\ phase = "ready"
    /\ \E v \in Texts \ {inputValue} :
          /\ inputValue' = v
          /\ targetSpeed' = CouplingSpeed(v)
    /\ UNCHANGED << lifecycle, elapsed, phase, breathOpacity, isVisible,
                    isSimulating, speed, stars, timers, rafPending,
                    resizeListeners, viewport, canvas, drawn, audioRunning,
                    frameCount >>

\* Mutant of ButtonEnabled: the text is not trimmed.
ButtonEnabled_untrimmed(p, text) == p = "ready" /\ Len(text) > 0

\* The Begin Simulation button can be pressed: it is rendered in phase 'ready'
\* only, and disabled={!inputValue.trim()}.
ButtonEnabled(p, text) == p = "ready" /\ trim(text) # << >>

BurstPending == Len(SelectSeq(timers, LAMBDA t : t.kind = "burst"))

\* handleSimulationStart, the button's onClick.
handleSimulationStart ==
    /\ lifecycle = "mounted"
    /\ ButtonEnabled(phase, inputValue)
    /\ BurstPending < MaxPending
    /\ isSimulating' = TRUE
    /\ targetSpeed' = BURST_SPEED
    /\ timers' = Append(timers, Timer("burst", BURST_MS, 0))
    /\ UNCHANGED << lifecycle, elapsed, phase, breathOpacity, isVisible, inputValue,
                    speed, stars, rafPending, resizeListeners, viewport, canvas,
                    drawn, audioRunning, frameCount >>

\* The callback handleSimulationStart arms: targetSpeedRef.current = 0.006.
BurstTimer ==
    /\ DueTimer # 0 /\ timers[DueTimer].kind = "burst"
    /\ targetSpeed' = SUSTAINED_SPEED
    /\ timers' = Remove(timers, DueTimer)
    /\ UNCHANGED << lifecycle, elapsed, phase, breathOpacity, isVisible, inputValue,
                    isSimulating, speed, stars, rafPending, resizeListeners,
                    viewport, canvas, drawn, audioRunning, frameCount >>

(* ------------------------------ teardown ------------------------------ *)

\* What the sequencer's cleanup, clearTimeout(silenceTimer), leaves pending.
ClearTimeouts(ts) == SelectSeq(ts, LAMBDA t : t.kind # "silence")

\* The component is unmounted: every effect's cleanup runs.
Unmount ==
    /\ lifecycle = "mounted"
    /\ lifecycle' = "unmounted"
    /\ timers' = ClearTimeouts(timers)
    /\ resizeListeners' = IF RendererActive(lifecycle, phase)
                          THEN resizeListeners - 1 ELSE resizeListeners
    /\ rafPending' = IF RendererActive(lifecycle, phase)
                     THEN CancelFrame(rafPending) ELSE rafPending
    /\ audioRunning' = FALSE
    /\ UNCHANGED << elapsed, phase, breathOpacity, isVisible, inputValue,
                    isSimulating, speed, targetSpeed, stars, viewport, canvas,
                    drawn, frameCount >>

(* --------------------------- specification ---------------------------- *)

Init ==
    /\ lifecycle = "rendered"
    /\ elapsed = 0
    /\ phase = "silence"
    /\ breathOpacity = 0
    /\ isVisible = FALSE
    /\ inputValue = << >>
    /\ isSimulating = FALSE
    /\ speed = INITIAL_SPEED
    /\ targetSpeed = INITIAL_SPEED
    /\ stars = << >>
    /\ timers = << >>
    /\ rafPending = 0
    /\ resizeListeners = 0
    /\ viewport \in Viewports
    /\ canvas = << 0, 0 >>
    /\ drawn = << >>
    /\ audioRunning = FALSE
    /\ frameCount = 0

Next ==
    \/ Mount
    \/ Tick
    \/ SilenceTimer
    \/ BreathTimer
    \/ AwakeningTimer
    \/ ReadyTimer
    \/ VisibleTimer
    \/ BurstTimer
    \/ Frame
    \/ Resize
    \/ TextChange
    \/ handleSimulationStart
    \/ Unmount

Spec == Init /\ [][Next]_vars

\* React runs the first render's effects, the event loop runs a due timer, and
\* time passes.
Fairness ==
    /\ WF_vars(Mount)
    /\ WF_vars(Tick)
    /\ WF_vars(SilenceTimer \/ BreathTimer \/ AwakeningTimer \/ ReadyTimer
               \/ VisibleTimer \/ BurstTimer)

FairSpec == Spec /\ Fairness

(* ------------------- the easing, as a pure function ------------------- *)

\* The speeds the easing is started from: 0.001, 0.002, ... 0.018.
SpeedInputs == {1000 * k : k \in 1..18}

\* The values the program gives targetSpeedRef.current.
TargetSpeeds ==
    {INITIAL_SPEED, AMBIENT_SPEED, IDLE_SPEED, THINKING_SPEED, SUSTAINED_SPEED,
     BURST_SPEED}

InitEase ==
    /\ lifecycle = "rendered"
    /\ elapsed = 0
    /\ phase = "silence"
    /\ breathOpacity = 0
    /\ isVisible = FALSE
    /\ inputValue = << >>
    /\ isSimulating = FALSE
    /\ speed \in SpeedInputs
    /\ targetSpeed \in TargetSpeeds
    /\ stars = << >>
    /\ timers = << >>
    /\ rafPending = 0
    /\ resizeListeners = 0
    /\ viewport \in Viewports
    /\ canvas = << 0, 0 >>
    /\ drawn = << >>
    /\ audioRunning = FALSE
    /\ frameCount = 0

\* The first statement of animate, with the target speed constant.
EaseStep ==
    /\ speed' = Ease(speed, targetSpeed)
    /\ UNCHANGED << lifecycle, elapsed, phase, breathOpacity, isVisible, inputValue,
                    isSimulating, targetSpeed, stars, timers, rafPending,
                    resizeListeners, viewport, canvas, drawn, audioRunning,
                    frameCount >>

NextEase == EaseStep

\* Frames keep coming while the renderer is active.
SpecEase == InitEase /\ [][NextEase]_vars /\ WF_vars(EaseStep)

(* ------------------------------ claims -------------------------------- *)

\* Pending timers of the phase sequencer.
SequencerPending == Len(SelectSeq(timers, LAMBDA t : t.kind \in SequencerKinds))

\* A burst-decay timer whose 3500ms have not yet passed.
BurstInProgress ==
    \E i \in 1..Len(timers) : timers[i].kind = "burst" /\ timers[i].remaining > 0

\* C1: phase starts at 'silence' and every step leaves it alone or moves it to
\* the next value of silence, breath, awakening, ready; it never moves back,
\* never skips a value and never leaves 'ready'.
C1_PhaseNeverRegresses ==
    /\ phase = "silence"
    /\ [][\/ phase' = phase
          \/ /\ phase # "ready"
             /\ PhaseIndex(phase') = PhaseIndex(phase) + 1]_vars

\* C1 witness: the whole sequence has run, and text changes and presses of the
\* trigger have happened in 'ready'.
C1_Witness == phase = "ready" /\ isVisible /\ isSimulating /\ inputValue = << >>

\* C2: after the unmount no timer of the phase sequencer runs any more (so none
\* of them changes phase, breathOpacity, isVisible or targetSpeed).
C2_NoSequencerTimerAfterTeardown ==
    [][lifecycle = "unmounted" =>
          /\ SequencerPending' = SequencerPending
          /\ phase' = phase
          /\ breathOpacity' = breathOpacity
          /\ isVisible' = isVisible]_vars

C4_BurstLastsFromEveryPress ==
    [][/\ BurstPending' > BurstPending => targetSpeed' = BURST_SPEED
       /\ (targetSpeed = BURST_SPEED /\ targetSpeed' # BURST_SPEED
              /\ inputValue' = inputValue)
          => (targetSpeed' = SUSTAINED_SPEED /\ ~BurstInProgress')]_vars

\* The phase the sequencer has reached t ms after the mount.
PhaseAt(t) ==
    IF t < 2500 THEN "silence"
    ELSE IF t < 6000 THEN "breath"
    ELSE IF t < 9000 THEN "awakening"
    ELSE "ready"

\* No timer of the sequencer is due at this instant and not yet run.
SequencerSettled ==
    \A i \in 1..Len(timers) :
        timers[i].kind \in SequencerKinds => timers[i].remaining > 0

\* C5: while the component is mounted, phase is breath from 2500ms, awakening
\* (with targetSpeed 0.002) from 6000ms, ready from 9000ms, and isVisible holds
\* from 11500ms; each of these changes happens at that offset exactly; every
\* run that is not torn down reaches ready and visible.
C5_Milestones ==
    /\ [](lifecycle = "mounted" /\ SequencerSettled =>
            /\ phase = PhaseAt(elapsed)
            /\ isVisible <=> elapsed >= 11500
            /\ phase = "awakening" => targetSpeed = 2000)
    /\ [][/\ (phase' = "breath" /\ phase # "breath") => elapsed = 2500
          /\ (phase' = "awakening" /\ phase # "awakening")
                => (elapsed = 6000 /\ targetSpeed' = 2000)
          /\ (phase' = "ready" /\ phase # "ready") => elapsed = 9000
          /\ (isVisible' /\ ~isVisible) => elapsed = 11500]_vars
    /\ <>(lifecycle = "unmounted" \/ (phase = "ready" /\ isVisible))

\* C5 witness: the mounted component 11500ms after the mount.
C5_Witness ==
    /\ lifecycle = "mounted" /\ SequencerSettled /\ elapsed = 11500
    /\ phase = "ready" /\ isVisible

C7_IdleWhenEmpty ==
    (inputValue = << >> /\ phase \in {"awakening", "ready"}) => targetSpeed = 2000

\* C8: the trigger fires only in 'ready' with a text that is non-empty when
\* trimmed, and targetSpeed is 0.018 or 0.006 only after the trigger has fired.
C8_TriggerGated ==
    /\ [](targetSpeed \in {18000, 6000} => isSimulating)
    /\ [][(BurstPending' > BurstPending \/ (isSimulating' /\ ~isSimulating)) =>
            (phase = "ready" /\ trim(inputValue) # << >>)]_vars

\* C8 witness: the trigger has fired and the burst is on.
C8_Witness == isSimulating /\ targetSpeed = 18000 /\ BurstInProgress

\* targetSpeed - currentSpeed.
EaseGap == targetSpeed - speed

\* The gap under which (targetSpeed - currentSpeed) * 0.05 rounds to zero.
EaseResolution == 100 \div (2 * EASE_PERCENT)

\* C9: with a constant target, a frame never flips the sign of targetSpeed -
\* currentSpeed and never widens the gap, it narrows a gap the arithmetic
\* resolves, and the gap ends within the resolution of the arithmetic.
C9_EaseConverges ==
    /\ [][/\ EaseGap >= 0 => EaseGap' >= 0
          /\ EaseGap <= 0 => EaseGap' <= 0
          /\ Abs(EaseGap') <= Abs(EaseGap)
          /\ Abs(EaseGap) >= EaseResolution => Abs(EaseGap') < Abs(EaseGap)]_vars
    /\ <>[](Abs(EaseGap) < EaseResolution)

\* C9 witness: frames have brought the speed from above to within the
\* resolution of the target.
C9_Witness ==
    speed \notin SpeedInputs /\ EaseGap < 0 /\ Abs(EaseGap) < EaseResolution

\* C10: after a text change targetSpeed is 0.003 exactly when the trigger is
\* enabled.
C10_SamePredicate ==
    [][inputValue' # inputValue =>
          (targetSpeed' = 3000 <=> ButtonEnabled(phase', inputValue'))]_vars

\* C11: a particle respawned in the last frame had nothing drawn for it in
\* that frame and has no previous projection stored.
C11_RespawnFrameDrawsNothing ==
    \A i \in 1..Len(drawn) :
        drawn[i].respawned =>
            /\ ~drawn[i].circle
            /\ ~drawn[i].trail
            /\ stars[i].prevX = Undefined
            /\ stars[i].prevY = Undefined

\* C12: in 'silence' and 'breath' targetSpeed has its initial value 0.001.
C12_TargetUntouchedBeforeAwakening ==
    phase \in {"silence", "breath"} => targetSpeed = 1000

\* A step in which animate ran: a frame callback, or a renderer activation.
AnimateStep ==
    \/ frameCount' # frameCount
    \/ phase' # phase /\ phase' \in {"awakening", "ready"}

\* The particles ps2 are the particles ps1 after one frame at speed spd on the
\* canvas cv.
OneFrameLater(ps1, ps2, spd, cv) ==
    /\ Len(ps2) = Len(ps1)
    /\ \E rxy \in [Particles -> RandomXY] :
          \A i \in 1..Len(ps1) : ps2[i] = StepStar(ps1[i], spd, cv, rxy[i]).star

\* C13: the particles are generated in the step into 'awakening' and in no
\* other; from then on a step leaves them as they are or, when animate runs
\* in it (the renderer's re-run on the step into 'ready' included), advances
\* the same particles by one frame; a resize leaves them as they are.
C13_ParticlesGeneratedOnce ==
    [][/\ (Len(stars) = 0 /\ Len(stars') # 0)
             => (phase = "breath" /\ phase' = "awakening")
       /\ Len(stars) # 0
             => \/ stars' = stars
                \/ AnimateStep /\ OneFrameLater(stars, stars', speed', canvas')
       /\ viewport' # viewport => stars' = stars]_vars

\* C13 witness: in 'ready', particles that the frames since their generation
\* have brought nearer than any generated depth, with a stored projection.
C13_Witness ==
    /\ phase = "ready" /\ Len(stars) # 0
    /\ \E i \in 1..Len(stars) :
          /\ stars[i].z < TRAIL_Z - 2000
          /\ stars[i].z > MIN_Z + 2148
          /\ stars[i].prevX # Undefined

\* C14: in 'silence' and 'breath' currentSpeed is 0.001, there are no particles
\* and no frame is pending; currentSpeed changes only in a step in which
\* animate runs, to the value the easing gives.
C14_SpeedOnlyByFrames ==
    /\ [](phase \in {"silence", "breath"} =>
            speed = 1000 /\ Len(stars) = 0 /\ rafPending = 0 /\ frameCount = 0)
    /\ [][speed' # speed =>
            /\ AnimateStep
            /\ speed' = speed + RoundDiv((targetSpeed' - speed) * 5, 100)]_vars

\* C14 witness: frames have run and raised the speed.
C14_Witness == phase = "ready" /\ frameCount >= 1 /\ speed > 1098

\* C15: at most one frame callback is pending and at most one resize listener
\* registered; after the unmount there is neither, and no frame runs.
C15_OneFrameOneListener ==
    /\ [](/\ rafPending <= 1
          /\ resizeListeners <= 1
          /\ lifecycle = "unmounted" => (rafPending = 0 /\ resizeListeners = 0))
    /\ [][lifecycle = "unmounted" =>
            (speed' = speed /\ stars' = stars /\ drawn' = drawn)]_vars

\* C15 witness: the renderer was activated, re-activated for 'ready', and then
\* deactivated by the unmount.
C15_Witness == lifecycle = "unmounted" /\ phase = "ready" /\ Len(stars) # 0

\* C16: a frame draws a trail for a particle only if the frame before it
\* stored that particle's projection (it drew the particle's circle).
C16_TrailFromPrecedingFrame ==
    [][\A i \in 1..Len(drawn) : drawn'[i].trail => drawn[i].circle]_vars

\* C17: targetSpeed is one of 0.001, 0.002, 0.003, 0.006, 0.018, currentSpeed
\* lies in [0.001, 0.018], and a frame brings every particle it does not
\* respawn strictly nearer.
C17_SpeedsInRange ==
    /\ [](/\ targetSpeed \in {1000, 2000, 3000, 6000, 18000}
          /\ 1000 <= speed /\ speed <= 18000)
    /\ [][(AnimateStep /\ Len(stars) # 0) =>
            \A i \in 1..Len(stars) :
                drawn'[i].respawned \/ stars'[i].z < stars[i].z]_vars

\* C17 witness: a frame has run during a burst.
C17_Witness ==
    isSimulating /\ frameCount >= 1 /\ targetSpeed = 18000 /\ speed > 1900

\* The opacity of the breath pulse t ms after the step into 'breath'.
BreathAt(t) ==
    IF t < 800 THEN 0
    ELSE IF t < 1600 THEN 30
    ELSE IF t < 2400 THEN 10
    ELSE IF t < 3200 THEN 25
    ELSE 0

BreathTimerDue ==
    \E i \in 1..Len(timers) : timers[i].kind = "breath" /\ timers[i].remaining = 0

BreathTimerPending == \E i \in 1..Len(timers) : timers[i].kind = "breath"

\* C18: in 'breath' the opacity is 0, 0.3, 0.1, 0.25, 0 from 0, 800, 1600, 2400
\* and 3200ms after the step into 'breath'; it changes at these offsets only;
\* at the step into 'awakening' it is 0 and no fade timer is pending.
C18_BreathSequence ==
    /\ [](lifecycle = "mounted" /\ phase = "breath" /\ ~BreathTimerDue =>
            breathOpacity = BreathAt(elapsed - 2500))
    /\ [][/\ breathOpacity' # breathOpacity =>
                /\ phase = "breath"
                /\ elapsed \in {3300, 4100, 4900, 5700}
                /\ breathOpacity' = BreathAt(elapsed - 2500)
          /\ (phase' = "awakening" /\ phase # "awakening") =>
                (breathOpacity = 0 /\ ~BreathTimerPending)]_vars

\* C18 witness: the fourth step of the sequence.
C18_Witness ==
    lifecycle = "mounted" /\ phase = "breath" /\ breathOpacity = 25 /\ elapsed = 4900

====
